---------------------------- MODULE Spec2Model ----------------------------
(***************************************************************************)
(* A model of src/Ex3/mazes.py: the Cell/Grid data model, the six maze     *)
(* generation algorithms, and the Dijkstra-based markups.                  *)
(*                                                                         *)
(* A cell is the pair <<row, column>>: Cell.__eq__ and Cell.__hash__ make  *)
(* cells with equal coordinates the same dictionary key, and a Grid holds  *)
(* exactly one Cell object per coordinate, so object identity ("is") and   *)
(* equality coincide on the cells of one grid.                             *)
(*                                                                         *)
(* A Python dict is modelled as the sequence of its keys (or of its        *)
(* key/value entries) in insertion order, a Python list as a sequence.     *)
(* Every random choice of the code is a nondeterministic choice (\E).      *)
(* The counters that only feed a print (iteration_count, random_choices,   *)
(* loops_removed) are unbounded and are left out.                          *)
(***************************************************************************)
EXTENDS Integers, Sequences, FiniteSets, TLC

(***************************************************************************)
(* Bounds of the model.                                                    *)
(***************************************************************************)
\* Grid(num_rows, num_columns) is explored for 1 <= num_rows <= MaxRows,
\* 1 <= num_columns <= MaxCols and num_rows * num_columns <= MaxCells.
MaxRows == 2
MaxCols == 3
MaxCells == 6
\* odds (sidewinder) is explored at the values k / OddsDen, random.random()
\* at the values k / RandomDen in [0, 1).
OddsDen == 2
RandomDen == 4
\* threshold (hybrid) is explored at the values k / ThresholdDen in [0, 1].
ThresholdDen == 2
\* One-directional link / unlink calls (bidirectional=False) are explored on
\* grids of at most MaxOneWayCells cells.
MaxOneWayCells == 4

\* wilson as a function of its random draws: how many draws a run is given,
\* and the values a draw takes (random.choice takes the draw modulo the length
\* of its list)
MaxTape == 5
MaxDraw == 4
\* The operations of a plain Markup are explored on grids of at most
\* MaxTableCells cells, with the values 0 .. MaxValue stored.
MaxTableCells == 2
MaxValue == 1
VARIABLES
    num_rows,      \* Grid.num_rows
    num_columns,   \* Grid.num_columns
    links,         \* cell -> Cell.links, the keys in insertion order
    raised,        \* the exception the last call ended with, or "none"
    algo,          \* the generation algorithm that was called, or "none"
    pc,            \* where the called algorithm stands
    odds,          \* sidewinder's odds, in units of 1 / OddsDen
    threshold,     \* hybrid's threshold, in units of 1 / ThresholdDen
    pos,           \* binary_tree, sidewinder: index of the next cell of the iteration
    run,           \* sidewinder: run
    current,       \* aldous_broder, hybrid: current
    visited,       \* aldous_broder, recursive_backtracker: visited
    unvisited,     \* wilson, hybrid: unvisited
    path,          \* wilson, hybrid: path
    stack,         \* recursive_backtracker: stack
    link_steps,    \* recursive_backtracker: how often the linking branch ran (history)
    pops,          \* recursive_backtracker: how often the popping branch ran (history)
    mk,            \* the Markup class under construction / constructed, or "none"
    mpc,           \* where the markup's constructor stands
    start_cell,    \* DijkstraMarkup's root_cell / ShortestPathMarkup's start_cell
    goal_cell,     \* ShortestPathMarkup's goal_cell
    marks,         \* Markup.marks: entries [k |-> cell, v |-> value] in insertion order
    sp_path,       \* ShortestPathMarkup.__init__: path
    sp_current,    \* ShortestPathMarkup.__init__: current
    mk_default,    \* Markup.default of the markup whose table marks is
    ret,           \* what the last lookup of the markup returned
    channel,       \* ColorizedMarkup.channel, or "none" before its construction
    colors         \* ColorizedMarkup.marks: entries [k |-> cell, v |-> [R, G, B]]

gridVars == <<num_rows, num_columns>>
genVars == <<algo, pc, odds, threshold, pos, run, current, visited, unvisited,
             path, stack, link_steps, pops>>
tableVars == <<ret, channel, colors>>
mkVars == <<mk, mpc, start_cell, goal_cell, marks, sp_path, sp_current,
            mk_default, ret, channel, colors>>
vars == <<num_rows, num_columns, links, raised, algo, pc, odds, threshold, pos,
          run, current, visited, unvisited, path, stack, link_steps, pops,
          mk, mpc, start_cell, goal_cell, marks, sp_path, sp_current,
          mk_default, ret, channel, colors>>

(***************************************************************************)
(* Sequences as Python lists.                                              *)
(***************************************************************************)
Range(s) == {s[i] : i \in 1..Len(s)}
Last(s) == s[Len(s)]
\* list.pop(): the list without its last element
Front(s) == SubSeq(s, 1, Len(s) - 1)
\* list.remove(x): the list without the first occurrence of x
Remove(s, x) ==
    LET i == CHOOSE j \in 1..Len(s) : s[j] = x /\ \A k \in 1..(j - 1) : s[k] # x
    IN  SubSeq(s, 1, i - 1) \o SubSeq(s, i + 1, Len(s))

(***************************************************************************)
(* Cell and Grid.                                                          *)
(***************************************************************************)
\* The absent neighbour (None).
None == <<-1, -1>>
\* None as a value: what a function without result, or dict.get without
\* default for a missing key, returns
NoValue == [none |-> TRUE]
\* Grid.size
size == num_columns * num_rows
\* Grid.create_cells: one cell per coordinate
Cells == (0..(num_rows - 1)) \X (0..(num_columns - 1))
\* Grid.cell_at
cell_at(row, column) ==
    IF 0 <= row /\ row < num_rows /\ 0 <= column /\ column < num_columns
    THEN <<row, column>> ELSE None
\* Grid.connect_cells: the four neighbour attributes
north(cell) == IF cell[1] > 0 THEN <<cell[1] - 1, cell[2]>> ELSE None
south(cell) == IF cell[1] < num_rows - 1 THEN <<cell[1] + 1, cell[2]>> ELSE None
west(cell) == IF cell[2] > 0 THEN <<cell[1], cell[2] - 1>> ELSE None
east(cell) == IF cell[2] < num_columns - 1 THEN <<cell[1], cell[2] + 1>> ELSE None
\* Cell.neighbors: north, south, east, west, without the absent ones
neighbors(cell) ==
    SelectSeq(<<north(cell), south(cell), east(cell), west(cell)>>,
              LAMBDA n : n # None)
\* Grid.each_cell: the k-th cell (from 0) of the row-major traversal
each_cell_at(k) == <<k \div num_columns, k % num_columns>>
\* Grid.each_cell as a list
each_cell == [k \in 1..size |-> each_cell_at(k - 1)]
\* Cell.__lt__: row-major order
cell_lt(a, b) == a[1] < b[1] \/ (a[1] = b[1] /\ a[2] < b[2])

\* Cell.is_linked
is_linked(L, a, b) == b \in Range(L[a])
\* self.links[cell] = True: a key already present keeps its place
link_one(L, a, b) ==
    IF b \in Range(L[a]) THEN L ELSE [L EXCEPT ![a] = Append(@, b)]
\* Cell.link without the recursive call
link_no_back(L, a, b, bidirectional) == link_one(L, a, b)
\* Cell.link
link(L, a, b, bidirectional) ==
    IF bidirectional THEN link_one(link_one(L, a, b), b, a)
    ELSE link_one(L, a, b)

\* The grid after construction: no cell is linked.
NoLinks == [c \in Cells |-> <<>>]


\* del self.links[cell]
del_link(L, a, b) == [L EXCEPT ![a] = SelectSeq(@, LAMBDA x : x # b)]
\* Cell.unlink with its two statements in the other order: the recursive call
\* first, del self.links[cell] after it
unlink_back_first(L, a, b, bidirectional) ==
    IF ~bidirectional
    THEN IF b \notin Range(L[a]) THEN [links |-> L, raised |-> "KeyError"]
         ELSE [links |-> del_link(L, a, b), raised |-> "none"]
    ELSE IF a \notin Range(L[b]) THEN [links |-> L, raised |-> "KeyError"]
         ELSE LET L1 == del_link(L, b, a)
              IN  IF b \notin Range(L1[a]) THEN [links |-> L1, raised |-> "KeyError"]
                  ELSE [links |-> del_link(L1, a, b), raised |-> "none"]
\* Cell.unlink: the links it leaves and the exception it ends with. The first
\* del raises KeyError before anything is removed; the recursive call's del
\* raises after this cell's entry is gone.
unlink(L, a, b, bidirectional) ==
    IF b \notin Range(L[a]) THEN [links |-> L, raised |-> "KeyError"]
    ELSE LET L1 == del_link(L, a, b)
         IN  IF ~bidirectional THEN [links |-> L1, raised |-> "none"]
             ELSE IF a \notin Range(L1[b])
                  THEN [links |-> L1, raised |-> "KeyError"]
                  ELSE [links |-> del_link(L1, b, a), raised |-> "none"]

(***************************************************************************)
(* The initial state: Grid(num_rows, num_columns) has been constructed,    *)
(* nothing has been called on it.                                          *)
(***************************************************************************)
Init ==
    /\ num_rows \in 1..MaxRows
    /\ num_columns \in 1..MaxCols
    /\ num_rows * num_columns <= MaxCells
    /\ links = NoLinks
    /\ raised = "none"
    /\ algo = "none"
    /\ pc = "idle"
    /\ odds = 0
    /\ threshold = 0
    /\ pos = 0
    /\ run = <<>>
    /\ current = None
    /\ visited = <<>>
    /\ unvisited = <<>>
    /\ path = <<>>
    /\ stack = <<>>
    /\ link_steps = 0
    /\ pops = 0
    /\ mk = "none"
    /\ mpc = "idle"
    /\ start_cell = None
    /\ goal_cell = None
    /\ marks = <<>>
    /\ sp_path = <<>>
    /\ sp_current = None
    /\ mk_default = NoValue
    /\ ret = NoValue
    /\ channel = "none"
    /\ colors = <<>>

\* A generation algorithm takes a freshly constructed, unlinked grid.
Fresh == pc = "idle" /\ mk = "none" /\ links = NoLinks

\* What a call of a generation algorithm leaves alone besides its own locals.
Enter(name) ==
    /\ Fresh
    /\ algo' = name
    /\ UNCHANGED <<gridVars, links, mkVars>>

(***************************************************************************)
(* Calls of Cell.link and Cell.unlink from outside the algorithms, between *)
(* geographic neighbours.                                                  *)
(***************************************************************************)
LinkCall(a, b, bidirectional) ==
    /\ pc = "idle" /\ mk = "none"
    /\ links' = link(links, a, b, bidirectional)
    /\ raised' = "none"
    /\ UNCHANGED <<gridVars, genVars, mkVars>>

UnlinkCall(a, b, bidirectional) ==
    /\ pc = "idle" /\ mk = "none"
    /\ LET r == unlink(links, a, b, bidirectional)
       IN  links' = r.links /\ raised' = r.raised
    /\ UNCHANGED <<gridVars, genVars, mkVars>>

(***************************************************************************)
(* binary_tree                                                             *)
(***************************************************************************)
\* lines 392-396 without lines 395-396: the north neighbour only
binary_tree_neighbors_north(cell) ==
    IF north(cell) # None THEN <<north(cell)>> ELSE <<>>
\* lines 392-396: the north and the east neighbour, those that exist
binary_tree_neighbors(cell) ==
    (IF north(cell) # None THEN <<north(cell)>> ELSE <<>>)
    \o (IF east(cell) # None THEN <<east(cell)>> ELSE <<>>)

binary_tree_call ==
    /\ Enter("binary_tree")
    /\ pc' = "each_cell"
    /\ pos' = 0
    /\ raised' = "none"
    /\ UNCHANGED <<odds, threshold, run, current, visited, unvisited, path,
                   stack, link_steps, pops>>

\* One iteration of "for cell in grid.each_cell()".
binary_tree_step ==
    /\ algo = "binary_tree" /\ pc = "each_cell" /\ pos < size
    /\ LET cell == each_cell_at(pos)
           nbs == binary_tree_neighbors(cell)
       IN  IF nbs # <<>>
           THEN \E i \in 1..Len(nbs) : links' = link(links, cell, nbs[i], TRUE)
           ELSE UNCHANGED links
    /\ pos' = pos + 1
    /\ UNCHANGED <<gridVars, raised, algo, pc, odds, threshold, run, current,
                   visited, unvisited, path, stack, link_steps, pops, mkVars>>

\* The iteration is exhausted: the function returns.
binary_tree_return ==
    /\ algo = "binary_tree" /\ pc = "each_cell" /\ pos = size
    /\ pc' = "done"
    /\ UNCHANGED <<gridVars, links, raised, algo, odds, threshold, pos, run,
                   current, visited, unvisited, path, stack, link_steps, pops,
                   mkVars>>

(***************************************************************************)
(* sidewinder                                                              *)
(***************************************************************************)
\* The values random.random() is explored at, in units of 1 / RandomDen.
RandomValues == 0..(RandomDen - 1)
\* The values of odds explored, in units of 1 / OddsDen: -1/OddsDen .. 1 + 1/OddsDen.
OddsValues == (-1)..(OddsDen + 1)
\* random.random() > odds
random_gt_odds(r, o) == r * OddsDen > o * RandomDen
\* lines 427-428, what is linked when a run closes: the chosen cell to its north,
\* with the loop variable in the place of the chosen cell
sidewinder_close_from_current(L, cell, chosen) == link(L, cell, north(chosen), TRUE)
\* lines 427-428 with the loop's cell linked north as well as the chosen one
sidewinder_close_both(L, cell, chosen) ==
    link(link(L, chosen, north(chosen), TRUE), cell, north(cell), TRUE)
\* lines 427-428: cell = random.choice(run); cell.link(cell.north)
sidewinder_close(L, cell, chosen) == link(L, chosen, north(chosen), TRUE)

\* lines 418-419 with <= in the place of <
odds_asserted_le(o) == o >= 0 /\ o <= OddsDen
\* lines 418-419: assert odds >= 0.0; assert odds < 1.0
odds_asserted(o) == o >= 0 /\ o < OddsDen

\* lines 418-420: the assertions fail before anything is visited, whatever the
\* grid's links are; with valid odds the function takes an unlinked grid.
sidewinder_call(o) ==
    /\ IF odds_asserted(o)
       THEN /\ Enter("sidewinder")
            /\ pc' = "each_cell" /\ raised' = "none"
       ELSE /\ pc = "idle" /\ mk = "none"
            /\ algo' = "sidewinder"
            /\ UNCHANGED <<gridVars, links, mkVars>>
            /\ pc' = "failed" /\ raised' = "AssertionError"
    /\ odds' = o
    /\ pos' = 0
    /\ run' = <<>>
    /\ UNCHANGED <<threshold, current, visited, unvisited, path, stack,
                   link_steps, pops>>

\* One iteration of "for cell in row", the rows taken top to bottom; run is
\* emptied when a row begins. random.random() is drawn only below row 0.
sidewinder_step ==
    /\ algo = "sidewinder" /\ pc = "each_cell" /\ pos < size
    /\ LET cell == each_cell_at(pos)
           run1 == Append(IF cell[2] = 0 THEN <<>> ELSE run, cell)
       IN  \E r \in RandomValues :
             IF (cell[1] = 0 \/ random_gt_odds(r, odds)) /\ east(cell) # None
             THEN /\ links' = link(links, cell, east(cell), TRUE)
                  /\ run' = run1
             ELSE IF cell[1] > 0
                  THEN \E i \in 1..Len(run1) :
                         /\ links' = sidewinder_close(links, cell, run1[i])
                         /\ run' = <<>>
                  ELSE /\ run' = run1
                       /\ UNCHANGED links
    /\ pos' = pos + 1
    /\ UNCHANGED <<gridVars, raised, algo, pc, odds, threshold, current,
                   visited, unvisited, path, stack, link_steps, pops, mkVars>>

sidewinder_return ==
    /\ algo = "sidewinder" /\ pc = "each_cell" /\ pos = size
    /\ pc' = "done"
    /\ UNCHANGED <<gridVars, links, raised, algo, odds, threshold, pos, run,
                   current, visited, unvisited, path, stack, link_steps, pops,
                   mkVars>>

(***************************************************************************)
(* aldous_broder                                                           *)
(***************************************************************************)
\* line 444 with <= in the place of <
aldous_broder_running_le(v) == Len(v) <= size
\* line 444: the loop's condition
aldous_broder_running(v) == Len(v) < size
\* lines 447-449 on visited: the neighbour is appended if it is not in the list
aldous_broder_visit(v, neighbor) ==
    IF neighbor \notin Range(v) THEN Append(v, neighbor) ELSE v
\* lines 447-448 on the links, linking every neighbour walked to
aldous_broder_link_always(L, v, cur, neighbor) == link(L, neighbor, cur, TRUE)
\* lines 447-448 on the links: neighbor.link(current) for a neighbour not visited
aldous_broder_link(L, v, cur, neighbor) ==
    IF neighbor \notin Range(v) THEN link(L, neighbor, cur, TRUE) ELSE L

\* lines 441-443: current = grid.random_cell(); visited = [current]
aldous_broder_call ==
    /\ Enter("aldous_broder")
    /\ \E s \in Cells : current' = s /\ visited' = <<s>>
    /\ pc' = "walk"
    /\ raised' = "none"
    /\ UNCHANGED <<odds, threshold, pos, run, unvisited, path, stack,
                   link_steps, pops>>

\* One iteration of the while loop, random.choice(current.neighbors()) being
\* neighbor.
aldous_broder_step(neighbor) ==
    /\ algo = "aldous_broder" /\ pc = "walk"
    /\ aldous_broder_running(visited)
    /\ neighbor \in Range(neighbors(current))
    /\ links' = aldous_broder_link(links, visited, current, neighbor)
    /\ visited' = aldous_broder_visit(visited, neighbor)
    /\ current' = neighbor
    /\ UNCHANGED <<gridVars, raised, algo, pc, odds, threshold, pos, run,
                   unvisited, path, stack, link_steps, pops, mkVars>>

aldous_broder_return ==
    /\ algo = "aldous_broder" /\ pc = "walk"
    /\ ~aldous_broder_running(visited)
    /\ pc' = "done"
    /\ UNCHANGED <<gridVars, links, raised, algo, odds, threshold, pos, run,
                   current, visited, unvisited, path, stack, link_steps, pops,
                   mkVars>>

(***************************************************************************)
(* wilson, and the second loop of hybrid, which is the same code           *)
(***************************************************************************)
\* lines 492-497 without the erasure: next is appended in either case
loop_erase_none(p, next) == Append(p, next)
\* lines 492-497 (530-535): a cell of the path cuts the path back to itself
\* (path.pop() until the last cell is next), any other cell is appended
loop_erase(p, next) ==
    IF next \in Range(p)
    THEN LET k == CHOOSE j \in 1..Len(p) :
                    p[j] = next /\ \A i \in (j + 1)..Len(p) : p[i] # next
         IN  SubSeq(p, 1, k)
    ELSE Append(p, next)
\* line 488 (526): the walk's condition
walking(p, unv) == Last(p) \in Range(unv)
\* lines 499-500 with the loop's body run for i = 0 only
carve_links_first(L, p, i) ==
    IF Len(p) < 2 THEN L ELSE link(L, p[1], p[2], TRUE)
\* lines 499-500 (537-538), the links: path[i].link(path[i + 1]) for every i
RECURSIVE carve_links(_, _, _)
carve_links(L, p, i) ==
    IF i > Len(p) - 1 THEN L
    ELSE carve_links(link(L, p[i], p[i + 1], TRUE), p, i + 1)
\* lines 499-501 (537-539), the list: unvisited.remove(path[i]) for every i
RECURSIVE carve_unvisited(_, _, _)
carve_unvisited(unv, p, i) ==
    IF i > Len(p) - 1 THEN unv
    ELSE carve_unvisited(Remove(unv, p[i]), p, i + 1)

(***************************************************************************)
(* wilson as a function of the values its random draws return              *)
(***************************************************************************)
\* random.choice(list) for the draw t
choice(list, t) == list[((t - 1) % Len(list)) + 1]
\* The sequences of draws explored.
Tapes == [1..MaxTape -> 1..MaxDraw]
\* lines 488-497 from the path p on: the path the walk ends with and the draws
\* left, or ended = FALSE when the draws run out first
RECURSIVE wilson_walk(_, _, _)
wilson_walk(p, unv, tape) ==
    IF ~walking(p, unv) THEN [ended |-> TRUE, path |-> p, tape |-> tape]
    ELSE IF tape = <<>> THEN [ended |-> FALSE, path |-> p, tape |-> tape]
    ELSE wilson_walk(loop_erase(p, choice(neighbors(Last(p)), Head(tape))), unv, Tail(tape))
\* lines 484-501 from the links L and the list unv on: the links the function
\* returns with, or ended = FALSE when the draws run out first
RECURSIVE wilson_loop(_, _, _)
wilson_loop(L, unv, tape) ==
    IF Len(unv) = 0 THEN [ended |-> TRUE, links |-> L]
    ELSE IF tape = <<>> THEN [ended |-> FALSE, links |-> L]
    ELSE LET w == wilson_walk(<<choice(unv, Head(tape))>>, unv, Tail(tape))
         IN  IF ~w.ended THEN [ended |-> FALSE, links |-> L]
             ELSE wilson_loop(carve_links(L, w.path, 1),
                              carve_unvisited(unv, w.path, 1), w.tape)
\* wilson(grid) on the unlinked grid, its draws being those of tape; a grid
\* of one cell draws its cell and returns
wilson_run(tape) ==
    wilson_loop(NoLinks, Remove(each_cell, choice(each_cell, Head(tape))), Tail(tape))
\* lines 478-479: every cell but a random one is unvisited
wilson_call ==
    /\ Enter("wilson")
    /\ \E first \in Cells : unvisited' = Remove(each_cell, first)
    /\ pc' = "outer"
    /\ raised' = "none"
    /\ UNCHANGED <<odds, threshold, pos, run, current, visited, path, stack,
                   link_steps, pops>>

\* lines 484-486: start = random.choice(unvisited); path = [start]
wilson_start(start) ==
    /\ algo = "wilson" /\ pc = "outer"
    /\ Len(unvisited) > 0
    /\ start \in Range(unvisited)
    /\ path' = <<start>>
    /\ pc' = "erased_walk"
    /\ UNCHANGED <<gridVars, links, raised, algo, odds, threshold, pos, run,
                   current, visited, unvisited, stack, link_steps, pops, mkVars>>

\* lines 488-497: one iteration of the walk, random.choice(...) being next
wilson_next(next) ==
    /\ algo = "wilson" /\ pc = "erased_walk"
    /\ walking(path, unvisited)
    /\ next \in Range(neighbors(Last(path)))
    /\ path' = loop_erase(path, next)
    /\ UNCHANGED <<gridVars, links, raised, algo, pc, odds, threshold, pos,
                   run, current, visited, unvisited, stack, link_steps, pops,
                   mkVars>>

\* lines 499-501: the walk has reached a visited cell; the path is carved
wilson_carve ==
    /\ algo = "wilson" /\ pc = "erased_walk"
    /\ ~walking(path, unvisited)
    /\ links' = carve_links(links, path, 1)
    /\ unvisited' = carve_unvisited(unvisited, path, 1)
    /\ pc' = "outer"
    /\ UNCHANGED <<gridVars, raised, algo, odds, threshold, pos, run, current,
                   visited, path, stack, link_steps, pops, mkVars>>

wilson_return ==
    /\ algo = "wilson" /\ pc = "outer"
    /\ Len(unvisited) = 0
    /\ pc' = "done"
    /\ UNCHANGED <<gridVars, links, raised, algo, odds, threshold, pos, run,
                   current, visited, unvisited, path, stack, link_steps, pops,
                   mkVars>>

(***************************************************************************)
(* hybrid                                                                  *)
(***************************************************************************)
\* The values of threshold explored, in units of 1 / ThresholdDen: 0 .. 1.
ThresholdValues == 0..ThresholdDen
\* line 513 with >= in the place of >
hybrid_first_phase_ge(unv, t) == Len(unv) * ThresholdDen >= size * t
\* line 513: len(unvisited) > grid.size() * threshold
hybrid_first_phase(unv, t) == Len(unv) * ThresholdDen > size * t

\* lines 507-509
hybrid_call(t) ==
    /\ Enter("hybrid")
    /\ threshold' = t
    /\ \E s \in Cells : current' = s /\ unvisited' = Remove(each_cell, s)
    /\ pc' = "walk"
    /\ raised' = "none"
    /\ UNCHANGED <<odds, pos, run, visited, path, stack, link_steps, pops>>

\* lines 513-520: one iteration of the first loop
hybrid_step(neighbor) ==
    /\ algo = "hybrid" /\ pc = "walk"
    /\ hybrid_first_phase(unvisited, threshold)
    /\ neighbor \in Range(neighbors(current))
    /\ IF neighbor \in Range(unvisited)
       THEN /\ links' = link(links, neighbor, current, TRUE)
            /\ unvisited' = Remove(unvisited, neighbor)
       ELSE UNCHANGED <<links, unvisited>>
    /\ current' = neighbor
    /\ UNCHANGED <<gridVars, raised, algo, pc, odds, threshold, pos, run,
                   visited, path, stack, link_steps, pops, mkVars>>

\* line 513 is false: the first loop ends, the second begins
hybrid_switch ==
    /\ algo = "hybrid" /\ pc = "walk"
    /\ ~hybrid_first_phase(unvisited, threshold)
    /\ pc' = "outer"
    /\ UNCHANGED <<gridVars, links, raised, algo, odds, threshold, pos, run,
                   current, visited, unvisited, path, stack, link_steps, pops,
                   mkVars>>

\* lines 522-524
hybrid_start(start) ==
    /\ algo = "hybrid" /\ pc = "outer"
    /\ Len(unvisited) > 0
    /\ start \in Range(unvisited)
    /\ path' = <<start>>
    /\ pc' = "erased_walk"
    /\ UNCHANGED <<gridVars, links, raised, algo, odds, threshold, pos, run,
                   current, visited, unvisited, stack, link_steps, pops, mkVars>>

\* lines 526-535
hybrid_next(next) ==
    /\ algo = "hybrid" /\ pc = "erased_walk"
    /\ walking(path, unvisited)
    /\ next \in Range(neighbors(Last(path)))
    /\ path' = loop_erase(path, next)
    /\ UNCHANGED <<gridVars, links, raised, algo, pc, odds, threshold, pos,
                   run, current, visited, unvisited, stack, link_steps, pops,
                   mkVars>>

\* lines 537-539
hybrid_carve ==
    /\ algo = "hybrid" /\ pc = "erased_walk"
    /\ ~walking(path, unvisited)
    /\ links' = carve_links(links, path, 1)
    /\ unvisited' = carve_unvisited(unvisited, path, 1)
    /\ pc' = "outer"
    /\ UNCHANGED <<gridVars, raised, algo, odds, threshold, pos, run, current,
                   visited, path, stack, link_steps, pops, mkVars>>

hybrid_return ==
    /\ algo = "hybrid" /\ pc = "outer"
    /\ Len(unvisited) = 0
    /\ pc' = "done"
    /\ UNCHANGED <<gridVars, links, raised, algo, odds, threshold, pos, run,
                   current, visited, unvisited, path, stack, link_steps, pops,
                   mkVars>>

(***************************************************************************)
(* recursive_backtracker                                                   *)
(***************************************************************************)
\* line 566 without its condition: every neighbour of the cell
unvisited_neighbors_all(cell, v) == neighbors(cell)
\* line 566: the neighbours of the cell that are not in visited
unvisited_neighbors(cell, v) ==
    SelectSeq(neighbors(cell), LAMBDA n : n \notin Range(v))
\* line 573 without the pop
stack_keep(st) == st
\* line 573: stack.pop()
stack_pop(st) == Front(st)

\* lines 560-563: start_cell is the argument, or grid.random_cell() (a Cell is
\* never false, so "not start_cell" holds for None alone): any cell either way
recursive_backtracker_call ==
    /\ Enter("recursive_backtracker")
    /\ \E s \in Cells : visited' = <<s>> /\ stack' = <<s>>
    /\ pc' = "stack"
    /\ link_steps' = 0
    /\ pops' = 0
    /\ raised' = "none"
    /\ UNCHANGED <<odds, threshold, pos, run, current, unvisited, path>>

\* lines 565-571: the top of the stack has an unvisited neighbour
recursive_backtracker_link ==
    /\ algo = "recursive_backtracker" /\ pc = "stack"
    /\ stack # <<>>
    /\ LET cur == Last(stack)
           unv == unvisited_neighbors(cur, visited)
       IN  /\ unv # <<>>
           /\ current' = cur
           /\ \E i \in 1..Len(unv) :
                /\ links' = link(links, cur, unv[i], TRUE)
                /\ visited' = Append(visited, unv[i])
                /\ stack' = Append(stack, unv[i])
    /\ link_steps' = link_steps + 1
    /\ UNCHANGED <<gridVars, raised, algo, pc, odds, threshold, pos, run,
                   unvisited, path, pops, mkVars>>

\* lines 565-567, 572-573: it has none
recursive_backtracker_pop ==
    /\ algo = "recursive_backtracker" /\ pc = "stack"
    /\ stack # <<>>
    /\ LET cur == Last(stack)
       IN  /\ unvisited_neighbors(cur, visited) = <<>>
           /\ current' = cur
    /\ stack' = stack_pop(stack)
    /\ pops' = pops + 1
    /\ UNCHANGED <<gridVars, links, raised, algo, pc, odds, threshold, pos,
                   run, visited, unvisited, path, link_steps, mkVars>>

recursive_backtracker_return ==
    /\ algo = "recursive_backtracker" /\ pc = "stack"
    /\ stack = <<>>
    /\ pc' = "done"
    /\ UNCHANGED <<gridVars, links, raised, algo, odds, threshold, pos, run,
                   current, visited, unvisited, path, stack, link_steps, pops,
                   mkVars>>

(***************************************************************************)
(* The generation algorithms and the calls of link / unlink with the       *)
(* default bidirectional=True.                                             *)
(***************************************************************************)
Generate ==
    \/ binary_tree_call \/ binary_tree_step \/ binary_tree_return
    \/ (\E o \in OddsValues : sidewinder_call(o))
    \/ sidewinder_step \/ sidewinder_return
    \/ aldous_broder_call
    \/ (\E n \in Cells : aldous_broder_step(n))
    \/ aldous_broder_return
    \/ wilson_call
    \/ (\E s \in Cells : wilson_start(s))
    \/ (\E n \in Cells : wilson_next(n))
    \/ wilson_carve \/ wilson_return
    \/ (\E t \in ThresholdValues : hybrid_call(t))
    \/ (\E n \in Cells : hybrid_step(n))
    \/ hybrid_switch
    \/ (\E s \in Cells : hybrid_start(s))
    \/ (\E n \in Cells : hybrid_next(n))
    \/ hybrid_carve \/ hybrid_return
    \/ recursive_backtracker_call \/ recursive_backtracker_link
    \/ recursive_backtracker_pop \/ recursive_backtracker_return

DefaultLinkCalls ==
    \/ (\E a \in Cells : \E b \in Range(neighbors(a)) : LinkCall(a, b, TRUE))
    \/ (\E a \in Cells : \E b \in Range(neighbors(a)) : UnlinkCall(a, b, TRUE))

Next == Generate \/ DefaultLinkCalls

Spec == Init /\ [][Next]_vars

(***************************************************************************)
(* Markup: the table self.marks as a list of entries in insertion order.   *)
(* A value is tagged with its kind, a distance [dist |-> n] or a marker    *)
(* [mark |-> s], so that values of both kinds can be compared.             *)
(***************************************************************************)
Dist(n) == [dist |-> n]
Mark(m) == [mark |-> m]
\* ShortestPathMarkup.__init__'s defaults
path_marker == "*"
non_path_marker == " "
end_marker == "^"

\* cell in self.marks
has_key(m, cell) == \E i \in 1..Len(m) : m[i].k = cell
\* self.marks[cell], for a key that is present
lookup(m, cell) == m[CHOOSE i \in 1..Len(m) : m[i].k = cell].v
\* Markup.__getitem__: self.marks.get(cell, self.default)
getitem(m, cell, default) == IF has_key(m, cell) THEN lookup(m, cell) ELSE default
\* Markup.__setitem__: a key already present keeps its place
setitem(m, cell, value) ==
    IF has_key(m, cell)
    THEN [i \in 1..Len(m) |-> IF m[i].k = cell THEN [k |-> cell, v |-> value] ELSE m[i]]
    ELSE Append(m, [k |-> cell, v |-> value])

(***************************************************************************)
(* DijkstraMarkup                                                          *)
(***************************************************************************)
\* The order of the frontier's tuples (dist, cell): by dist, then Cell.__lt__.
entry_lt(e, f) == e[1] < f[1] \/ (e[1] = f[1] /\ cell_lt(e[2], f[2]))
\* heapq.heappop returns the least tuple of the heap: its index in the list
\* that holds the heap's tuples
least_index(frontier) ==
    CHOOSE i \in 1..Len(frontier) :
        \A j \in 1..Len(frontier) : ~entry_lt(frontier[j], frontier[i])
\* lines 280-282 with dist in the place of dist + 1
relaxed_dist_same(dist) == dist
\* lines 280-282: the distance given to a neighbour
relaxed_dist(dist) == dist + 1
\* lines 279-282: for neighbor in cell.all_links(), from the i-th link on
RECURSIVE relax(_, _, _, _, _)
relax(nbs, i, dist, m, frontier) ==
    IF i > Len(nbs) THEN [marks |-> m, frontier |-> frontier]
    ELSE LET neighbor == nbs[i]
         IN  IF ~has_key(m, neighbor)
                \/ relaxed_dist(dist) < getitem(m, neighbor, Dist(0)).dist
             THEN relax(nbs, i + 1, dist,
                        setitem(m, neighbor, Dist(relaxed_dist(dist))),
                        Append(frontier, <<relaxed_dist(dist), neighbor>>))
             ELSE relax(nbs, i + 1, dist, m, frontier)
\* lines 273-282: the while loop
RECURSIVE dijkstra_loop(_, _, _)
dijkstra_loop(L, m, frontier) ==
    IF Len(frontier) = 0 THEN m
    ELSE LET i == least_index(frontier)
             dist == frontier[i][1]
             cell == frontier[i][2]
             rest == SubSeq(frontier, 1, i - 1) \o SubSeq(frontier, i + 1, Len(frontier))
         IN  IF dist > getitem(m, cell, Dist(0)).dist
             THEN dijkstra_loop(L, m, rest)
             ELSE LET r == relax(L[cell], 1, dist, m, rest)
                  IN  dijkstra_loop(L, r.marks, r.frontier)
\* DijkstraMarkup.__init__: the table it leaves
dijkstra(L, root_cell) ==
    dijkstra_loop(L, setitem(<<>>, root_cell, Dist(0)), <<<<0, root_cell>>>>)
\* DijkstraMarkup.farthest_cell: max(self.marks, key=self.marks.get) is the
\* first key, in insertion order, with the greatest value
farthest_cell(m) ==
    m[CHOOSE i \in 1..Len(m) :
        /\ \A j \in 1..Len(m) : m[j].v.dist <= m[i].v.dist
        /\ \A j \in 1..(i - 1) : m[j].v.dist < m[i].v.dist].k

\* DijkstraMarkup(grid, root_cell)
dijkstra_markup_call(root_cell) ==
    /\ pc = "idle" /\ mk = "none"
    /\ mk' = "DijkstraMarkup"
    /\ start_cell' = root_cell
    /\ marks' = dijkstra(links, root_cell)
    /\ mk_default' = Dist(0)
    /\ mpc' = "done"
    /\ raised' = "none"
    /\ UNCHANGED <<gridVars, links, genVars, goal_cell, sp_path, sp_current,
                   tableVars>>

(***************************************************************************)
(* ShortestPathMarkup and LongestPathMarkup                                *)
(***************************************************************************)
\* lines 302-304: every cell mapped to non_path_marker, in each_cell's order
initial_path == [i \in 1..size |-> [k |-> each_cell[i], v |-> Mark(non_path_marker)]]
\* line 312: min(current.all_links(), key=lambda cell: self.marks[cell]) is the
\* first linked cell, in the links' order, with the least mark
least_link(nbs, m) ==
    nbs[CHOOSE i \in 1..Len(nbs) :
        /\ \A j \in 1..Len(nbs) : lookup(m, nbs[j]).dist >= lookup(m, nbs[i]).dist
        /\ \A j \in 1..(i - 1) : lookup(m, nbs[j]).dist > lookup(m, nbs[i]).dist]
\* line 312 with Markup.__getitem__ (self[cell], an unmarked cell counting as the
\* default 0) in the place of self.marks[cell]
walk_min_default(nbs, m) ==
    IF Len(nbs) = 0 THEN [raised |-> "ValueError", cell |-> None]
    ELSE [raised |-> "none",
          cell |-> nbs[CHOOSE i \in 1..Len(nbs) :
                /\ \A j \in 1..Len(nbs) :
                     getitem(m, nbs[j], Dist(0)).dist >= getitem(m, nbs[i], Dist(0)).dist
                /\ \A j \in 1..(i - 1) :
                     getitem(m, nbs[j], Dist(0)).dist > getitem(m, nbs[i], Dist(0)).dist]]
\* line 312: what min() ends with. It raises ValueError for an empty list, and
\* its key, called on every linked cell, raises KeyError for one without mark.
walk_min(nbs, m) ==
    IF Len(nbs) = 0 THEN [raised |-> "ValueError", cell |-> None]
    ELSE IF \E i \in 1..Len(nbs) : ~has_key(m, nbs[i])
         THEN [raised |-> "KeyError", cell |-> None]
         ELSE [raised |-> "none", cell |-> least_link(nbs, m)]
\* line 308 left out
walk_mark_nothing(p, cur) == p
\* line 308: path[current] = path_marker
walk_mark(p, cur) == setitem(p, cur, Mark(path_marker))
\* lines 314-315 without the second assignment
mark_start_only(p, start, goal) == setitem(p, start, Mark(end_marker))
\* lines 314-315: both ends get end_marker
mark_ends(p, start, goal) ==
    setitem(setitem(p, start, Mark(end_marker)), goal, Mark(end_marker))

\* lines 300-306 for the class named, m being the table that
\* DijkstraMarkup.__init__ leaves for start: the path table, current = goal_cell
shortest_path_begin(class, start, goal, m) ==
    /\ pc = "idle" /\ mk = "none"
    /\ mk' = class
    /\ start_cell' = start
    /\ goal_cell' = goal
    /\ marks' = m
    /\ sp_path' = initial_path
    /\ sp_current' = goal
    /\ mk_default' = Dist(0)
    /\ mpc' = "walk"
    /\ raised' = "none"
    /\ UNCHANGED <<gridVars, links, genVars, tableVars>>

\* ShortestPathMarkup(grid, start_cell, goal_cell)
shortest_path_markup_call(start) ==
    LET m == dijkstra(links, start)
    IN  \E goal \in Cells :
            shortest_path_begin("ShortestPathMarkup", start, goal, m)

\* lines 325-329 with the second search left out
longest_path_ends_one_search(s) ==
    LET farthest == farthest_cell(dijkstra(links, s))
    IN  <<s, farthest>>
\* lines 325-329: the two cells LongestPathMarkup passes on, for the cell s
\* that grid.random_cell() returned
longest_path_ends(s) ==
    LET farthest == farthest_cell(dijkstra(links, s))
        next_farthest == farthest_cell(dijkstra(links, farthest))
    IN  <<farthest, next_farthest>>

\* LongestPathMarkup(grid)
longest_path_markup_call ==
    \E s \in Cells :
        LET ends == longest_path_ends(s)
        IN  shortest_path_begin("LongestPathMarkup", ends[1], ends[2],
                                dijkstra(links, ends[1]))

\* lines 307-312: one iteration of the backward walk; an exception of min()
\* ends the construction.
shortest_path_walk ==
    /\ mk \in {"ShortestPathMarkup", "LongestPathMarkup"} /\ mpc = "walk"
    /\ sp_current # start_cell
    /\ sp_path' = walk_mark(sp_path, sp_current)
    /\ LET r == walk_min(links[sp_current], marks)
       IN  IF r.raised # "none"
           THEN mpc' = "error" /\ raised' = r.raised /\ UNCHANGED sp_current
           ELSE sp_current' = r.cell /\ UNCHANGED <<mpc, raised>>
    /\ UNCHANGED <<gridVars, links, genVars, mk, start_cell, goal_cell, marks,
                   mk_default, tableVars>>

\* lines 307, 314-316: current is start_cell; the ends are marked and the path
\* table becomes the markup's table
shortest_path_finish ==
    /\ mk \in {"ShortestPathMarkup", "LongestPathMarkup"} /\ mpc = "walk"
    /\ sp_current = start_cell
    /\ sp_path' = mark_ends(sp_path, start_cell, goal_cell)
    /\ marks' = sp_path'
    /\ mpc' = "done"
    /\ UNCHANGED <<gridVars, links, raised, genVars, mk, start_cell, goal_cell,
                   sp_current, mk_default, tableVars>>

(***************************************************************************)
(* Markups over the link structures that calls of link / unlink build,     *)
(* with either value of bidirectional.                                     *)
(***************************************************************************)
OneWayLinkCalls ==
    \/ (\E a \in Cells : \E b \in Range(neighbors(a)) :
            size <= MaxOneWayCells /\ LinkCall(a, b, FALSE))
    \/ (\E a \in Cells : \E b \in Range(neighbors(a)) :
            size <= MaxOneWayCells /\ UnlinkCall(a, b, FALSE))

Markups ==
    \/ (\E root \in Cells : dijkstra_markup_call(root))
    \/ (\E start \in Cells : shortest_path_markup_call(start))
    \/ longest_path_markup_call
    \/ shortest_path_walk
    \/ shortest_path_finish

NextMarkup == DefaultLinkCalls \/ OneWayLinkCalls \/ Markups

SpecMarkup == Init /\ [][NextMarkup]_vars

(***************************************************************************)
(* Markup: the operations on a plain Markup                                *)
(***************************************************************************)
\* The values stored, and the defaults a Markup is constructed with: ' ' (the
\* default of Markup.__init__) and 0.
TableValues == {Dist(n) : n \in 0..MaxValue}
TableDefaults == {Mark(" "), Dist(0)}
\* The rows and columns passed to set_item_at / get_item_at: one out of
\* bounds on either side.
RowValues == (-1)..num_rows
ColumnValues == (-1)..num_columns
\* lines 235-236 (244-245): the two assertions
at_asserted(row, column) ==
    row >= 0 /\ row < num_rows /\ column >= 0 /\ column < num_columns

\* Markup.set_item_at: the table it leaves and the exception it ends with
set_item_at(m, row, column, value) ==
    IF ~at_asserted(row, column) THEN [marks |-> m, raised |-> "AssertionError"]
    ELSE IF cell_at(row, column) = None THEN [marks |-> m, raised |-> "IndexError"]
    ELSE [marks |-> setitem(m, cell_at(row, column), value), raised |-> "none"]
\* Markup.get_item_at: what it returns and the exception it ends with;
\* self.marks.get(cell) is None for a cell without entry
get_item_at(m, row, column, default) ==
    IF ~at_asserted(row, column) THEN [value |-> NoValue, raised |-> "AssertionError"]
    ELSE IF cell_at(row, column) = None THEN [value |-> NoValue, raised |-> "IndexError"]
    ELSE [value |-> getitem(m, cell_at(row, column), NoValue), raised |-> "none"]

\* Markup(grid, default)
markup_call(default) ==
    /\ pc = "idle" /\ mk = "none"
    /\ size <= MaxTableCells
    /\ mk' = "Markup"
    /\ marks' = <<>>
    /\ mk_default' = default
    /\ mpc' = "done"
    /\ raised' = "none"
    /\ UNCHANGED <<gridVars, links, genVars, start_cell, goal_cell, sp_path,
                   sp_current, tableVars>>

\* What an operation on the constructed Markup leaves alone.
TableCall ==
    /\ mk = "Markup" /\ mpc = "done"
    /\ UNCHANGED <<gridVars, links, genVars, mk, mpc, start_cell, goal_cell,
                   sp_path, sp_current, mk_default, channel, colors>>

\* Markup.reset
reset_call ==
    /\ TableCall
    /\ marks' = <<>>
    /\ ret' = NoValue
    /\ raised' = "none"

\* markup[cell] = value
setitem_call(cell, value) ==
    /\ TableCall
    /\ marks' = setitem(marks, cell, value)
    /\ ret' = NoValue
    /\ raised' = "none"

\* markup.set_item_at(row, column, value)
set_item_at_call(row, column, value) ==
    /\ TableCall
    /\ LET r == set_item_at(marks, row, column, value)
       IN  marks' = r.marks /\ raised' = r.raised
    /\ ret' = NoValue

\* markup[cell]
getitem_call(cell) ==
    /\ TableCall
    /\ ret' = getitem(marks, cell, mk_default)
    /\ raised' = "none"
    /\ UNCHANGED marks

\* markup.get_item_at(row, column)
get_item_at_call(row, column) ==
    /\ TableCall
    /\ LET r == get_item_at(marks, row, column, mk_default)
       IN  ret' = r.value /\ raised' = r.raised
    /\ UNCHANGED marks

(***************************************************************************)
(* ColorizedMarkup                                                         *)
(***************************************************************************)
\* The channels a ColorizedMarkup is constructed with.
Channels == {"R", "G", "B"}
\* round(num / den) for num >= 0, den > 0: Python rounds a half to the even
\* neighbour. The quotient is taken exactly, where the code rounds the float
\* 255 * intensity or 127 * intensity.
round(num, den) ==
    LET q == num \div den
        r == num % den
    IN  IF 2 * r < den THEN q
        ELSE IF 2 * r > den THEN q + 1
        ELSE IF q % 2 = 0 THEN q ELSE q + 1
\* lines 361-362: dark and bright for a cell's value and the greatest value
dark(max_value, cell_value) == round(255 * (max_value - cell_value), max_value)
bright(max_value, cell_value) == round(127 * (max_value - cell_value), max_value) + 128
\* lines 363-368: the triplet for the channel
triplet(ch, max_value, cell_value) ==
    LET d == dark(max_value, cell_value)
        b == bright(max_value, cell_value)
    IN  IF ch = "R" THEN <<b, d, d>>
        ELSE IF ch = "G" THEN <<d, b, d>>
        ELSE <<d, d, b>>
\* Markup.max: max(self.marks.keys(), key=self.__getitem__) is the first key,
\* in insertion order, with the greatest value (the table being non-empty)
markup_max(m) ==
    m[CHOOSE i \in 1..Len(m) :
        /\ \A j \in 1..Len(m) : m[j].v.dist <= m[i].v.dist
        /\ \A j \in 1..(i - 1) : m[j].v.dist < m[i].v.dist].k
\* line 360 for a value that is no number (the default ' '): int - str
is_number(value) == "dist" \in DOMAIN value
\* lines 358-368 from the i-th cell of each_cell on: the table left and the
\* exception the loop ends with
RECURSIVE colorize_loop(_, _, _, _, _, _)
colorize_loop(own, m, default, ch, max_value, i) ==
    IF i > size THEN [marks |-> own, raised |-> "none"]
    ELSE LET c == each_cell[i]
             cell_value == getitem(m, c, default)
         IN  IF ~is_number(cell_value) THEN [marks |-> own, raised |-> "TypeError"]
             ELSE IF max_value = 0 THEN [marks |-> own, raised |-> "ZeroDivisionError"]
             ELSE colorize_loop(setitem(own, c, triplet(ch, max_value, cell_value.dist)),
                                m, default, ch, max_value, i + 1)
\* intensity_colorize with max_value taken as 1 where it is 0
intensity_colorize_guarded(own, m, default, ch) ==
    IF Len(m) = 0 THEN [marks |-> own, raised |-> "ValueError"]
    ELSE LET v == getitem(m, markup_max(m), default).dist
         IN  colorize_loop(own, m, default, ch, IF v = 0 THEN 1 ELSE v, 1)
\* ColorizedMarkup.intensity_colorize(markup), own being this markup's table,
\* m and default the source's: max() of an empty table raises ValueError
intensity_colorize(own, m, default, ch) ==
    IF Len(m) = 0 THEN [marks |-> own, raised |-> "ValueError"]
    ELSE colorize_loop(own, m, default, ch, getitem(m, markup_max(m), default).dist, 1)

\* ColorizedMarkup(grid, channel)
colorized_markup_call(ch) ==
    /\ pc = "idle" /\ channel = "none"
    /\ channel' = ch
    /\ colors' = <<>>
    /\ raised' = "none"
    /\ UNCHANGED <<gridVars, links, genVars, mk, mpc, start_cell, goal_cell,
                   marks, sp_path, sp_current, mk_default, ret>>

\* colorized.intensity_colorize(markup), markup being the Markup or the
\* DijkstraMarkup constructed
intensity_colorize_call ==
    /\ channel # "none"
    /\ mk \in {"Markup", "DijkstraMarkup"} /\ mpc = "done"
    /\ LET r == intensity_colorize(colors, marks, mk_default, channel)
       IN  colors' = r.marks /\ raised' = r.raised
    /\ UNCHANGED <<gridVars, links, genVars, mk, mpc, start_cell, goal_cell,
                   marks, sp_path, sp_current, mk_default, ret, channel>>

\* An argument of colorize_dijkstra: <<>> for one that is omitted (None), <<n>>
\* for the number n. The numbers explored are those in bounds and the first
\* beyond them.
Omitted == <<>>
Given(n) == <<n>>
StartRowValues == {Omitted} \cup {Given(n) : n \in 0..num_rows}
StartColumnValues == {Omitted} \cup {Given(n) : n \in 0..num_columns}
\* lines 346-349: "if not start_row" holds for None and for 0, and the centre
\* takes the argument's place
start_or_centre(arg, extent) ==
    IF arg = Omitted \/ arg = Given(0) THEN extent \div 2 ELSE arg[1]
\* line 350: start_cell
colorize_dijkstra_start(start_row, start_column) ==
    cell_at(start_or_centre(start_row, num_rows),
            start_or_centre(start_column, num_columns))

\* colorized.colorize_dijkstra(start_row, start_column): dm, the DijkstraMarkup
\* of line 351, is kept as the markup constructed. For a start out of bounds
\* cell_at returns None, and DijkstraMarkup's loop fails on None.all_links().
colorize_dijkstra_call(start_row, start_column) ==
    /\ pc = "idle" /\ channel # "none" /\ mk = "none"
    /\ LET start == colorize_dijkstra_start(start_row, start_column)
       IN  IF start = None
           THEN /\ raised' = "AttributeError"
                /\ UNCHANGED <<mk, mpc, start_cell, marks, mk_default, colors>>
           ELSE \E dm \in {dijkstra(links, start)} :
                  \E r \in {intensity_colorize(colors, dm, Dist(0), channel)} :
                    /\ mk' = "DijkstraMarkup"
                    /\ mpc' = "done"
                    /\ start_cell' = start
                    /\ marks' = dm
                    /\ mk_default' = Dist(0)
                    /\ colors' = r.marks
                    /\ raised' = r.raised
    /\ UNCHANGED <<gridVars, links, genVars, goal_cell, sp_path, sp_current,
                   ret, channel>>
Colorized ==
    \/ (\E ch \in Channels : colorized_markup_call(ch))
    \/ intensity_colorize_call
    \/ (\E start_row \in StartRowValues : \E start_column \in StartColumnValues :
            colorize_dijkstra_call(start_row, start_column))

Tables ==
    \/ (\E default \in TableDefaults : markup_call(default))
    \/ reset_call
    \/ (\E cell \in Cells : \E value \in TableValues : setitem_call(cell, value))
    \/ (\E row \in RowValues : \E column \in ColumnValues : \E value \in TableValues :
            set_item_at_call(row, column, value))
    \/ (\E cell \in Cells : getitem_call(cell))
    \/ (\E row \in RowValues : \E column \in ColumnValues : get_item_at_call(row, column))

NextTable ==
    \/ DefaultLinkCalls
    \/ Tables
    \/ (\E root \in Cells : dijkstra_markup_call(root))
    \/ Colorized

SpecTable == Init /\ [][NextTable]_vars

(***************************************************************************)
(* What the properties speak of.                                           *)
(***************************************************************************)
\* The cells reached from a in at most k hops along links.
RECURSIVE Within(_, _, _)
Within(L, a, k) ==
    IF k = 0 THEN {a}
    ELSE LET W == Within(L, a, k - 1)
         IN  W \cup UNION {Range(L[c]) : c \in W}
\* The cells reachable from a via links.
Reach(L, a) == Within(L, a, size)
\* The minimum number of link hops from a to a cell b reachable from a.
Hops(L, a, b) ==
    CHOOSE k \in 0..size :
        b \in Within(L, a, k) /\ \A j \in 0..(k - 1) : b \notin Within(L, a, j)
\* The link relation is symmetric.
Symmetric(L) == \A a \in Cells : \A b \in Cells : is_linked(L, a, b) = is_linked(L, b, a)
\* The undirected links: the pairs of cells linked in either direction.
UndirectedLinks(L) == UNION {{{a, b} : b \in Range(L[a])} : a \in Cells}
\* Every cell is reachable from every other.
Connected(L) == \A a \in Cells : Reach(L, a) = Cells
\* The link graph is a spanning tree of the grid.
SpanningTree(L) ==
    /\ Symmetric(L)
    /\ \A a \in Cells : a \notin Range(L[a])
    /\ Cardinality(UndirectedLinks(L)) = size - 1
    /\ Connected(L)
\* A generation algorithm has returned.
Generated == algo # "none" /\ pc = "done"

(***************************************************************************)
(* C1: when any of the six generation algorithms, run on a fresh unlinked  *)
(* grid (sidewinder with 0 <= odds < 1, hybrid with threshold in [0, 1]),  *)
(* has returned, every cell is reachable from every other via links and    *)
(* there are exactly size() - 1 undirected links.                          *)
(***************************************************************************)
C1_SpanningTree ==
    Generated =>
        /\ Connected(links)
        /\ Cardinality(UndirectedLinks(links)) = size - 1

\* hybrid has returned on a 2 x 3 grid after both of its loops carved links
\* (threshold 1/2: three cells by the plain walk, three by erased walks).
C1_Witness ==
    /\ Generated /\ algo = "hybrid"
    /\ num_rows = 2 /\ num_columns = 3
    /\ threshold * 2 = ThresholdDen
    /\ Len(path) >= 3

(***************************************************************************)
(* C3: in every state of a generation algorithm's run, and after any       *)
(* calls of link / unlink with the default bidirectional=True on an        *)
(* unlinked grid, A.is_linked(B) = B.is_linked(A) for all cells A, B.      *)
(***************************************************************************)
C3_Symmetric == Symmetric(links)

\* A link call and a failed unlink call have been made outside the
\* algorithms, and some cell is linked to two cells.
C3_Witness ==
    /\ algo = "none" /\ raised = "KeyError"
    /\ \E a \in Cells : Len(links[a]) >= 2

(***************************************************************************)
(* C4: in every state of a generation algorithm's run, every linked pair   *)
(* of cells is a pair of geographic neighbours; no cell is linked to       *)
(* itself or to a cell that is not adjacent.                               *)
(***************************************************************************)
C4_LinkedAreNeighbours ==
    algo # "none" =>
        \A a \in Cells : \A b \in Range(links[a]) :
            b # a /\ b \in Range(neighbors(a))

\* sidewinder has closed a run of at least two cells by linking north a cell
\* that is not the last of the run: (1,0) is linked north and east.
C4_Witness ==
    /\ algo = "sidewinder" /\ pc = "done"
    /\ num_rows = 2 /\ num_columns >= 2
    /\ is_linked(links, <<1, 0>>, <<0, 0>>)
    /\ is_linked(links, <<1, 0>>, <<1, 1>>)

(***************************************************************************)
(* C9, as stated: recursive_backtracker terminates and every run performs  *)
(* exactly size() link steps. (Violated: the start cell is visited without *)
(* a link step.)                                                           *)
(***************************************************************************)
C9_Original ==
    (algo = "recursive_backtracker" /\ pc = "done") => link_steps = size

\* What every iteration of recursive_backtracker's loop decreases.
C9_Measure == 2 * (size - Len(visited)) + Len(stack)

(***************************************************************************)
(* C9, amended: recursive_backtracker terminates (every iteration of its   *)
(* loop decreases 2 * (size() - len(visited)) + len(stack), which is never *)
(* negative), and every run performs exactly size() - 1 link steps and     *)
(* exactly size() backtracking pops.                                       *)
(***************************************************************************)
C9_Amended ==
    /\ [](algo = "recursive_backtracker" =>
            /\ C9_Measure >= 0
            /\ (pc = "stack" /\ stack # <<>> =>
                    ENABLED (recursive_backtracker_link \/ recursive_backtracker_pop))
            /\ (pc = "done" => link_steps = size - 1 /\ pops = size))
    /\ [][(algo = "recursive_backtracker" /\ pc = "stack") =>
            (pc' = "done" \/ C9_Measure' < C9_Measure)]_vars

\* recursive_backtracker has returned on a 2 x 3 grid.
C9_Witness ==
    /\ algo = "recursive_backtracker" /\ pc = "done"
    /\ num_rows = 2 /\ num_columns = 3
    /\ link_steps = 5 /\ pops = 6

(***************************************************************************)
(* Properties of the markups.                                              *)
(***************************************************************************)
\* The cells of a table, and those mapped to a given value.
Keys(m) == {m[i].k : i \in 1..Len(m)}
CellsWith(m, value) == {m[i].k : i \in {j \in 1..Len(m) : m[j].v = value}}
\* A markup of the class named has been constructed.
Constructed(class) == mk = class /\ mpc = "done"
\* The greatest number of link hops between two cells of a connected grid.
Diameter(L) ==
    CHOOSE d \in 0..size :
        /\ \E a \in Cells : \E b \in Cells : Hops(L, a, b) = d
        /\ \A a \in Cells : \A b \in Cells : Hops(L, a, b) <= d

(***************************************************************************)
(* C2: for every grid, root cell and link structure, DijkstraMarkup's      *)
(* construction ends with marks[root] = 0 and, for every cell reachable    *)
(* from root via links, marks[cell] = the minimum number of link hops from *)
(* root; a cell that is not reachable is not in the table. (On a 1 x N     *)
(* grid linked in a line the cell (0,k) gets k from the leftmost cell.)    *)
(***************************************************************************)
C2_DijkstraDistances ==
    Constructed("DijkstraMarkup") =>
        /\ has_key(marks, start_cell) /\ lookup(marks, start_cell) = Dist(0)
        /\ Len(marks) = Cardinality(Keys(marks))
        /\ Keys(marks) = Reach(links, start_cell)
        /\ \A c \in Reach(links, start_cell) :
              lookup(marks, c) = Dist(Hops(links, start_cell, c))

\* A 1 x 3 grid linked in a line: (0,2) is at distance 2 from (0,0).
C2_Witness ==
    /\ Constructed("DijkstraMarkup")
    /\ num_rows = 1 /\ num_columns = 3
    /\ start_cell = <<0, 0>>
    /\ is_linked(links, <<0, 0>>, <<0, 1>>) /\ is_linked(links, <<0, 1>>, <<0, 2>>)
    /\ has_key(marks, <<0, 2>>) /\ lookup(marks, <<0, 2>>) = Dist(2)

(***************************************************************************)
(* C5: on a grid whose links are a spanning tree, for any start and goal   *)
(* (also start = goal), ShortestPathMarkup's construction terminates (each *)
(* iteration of the backward walk moves to a cell with a smaller distance  *)
(* and raises nothing) and its final table holds every cell once: start    *)
(* and goal map to end_marker, every other cell of the walk from goal to   *)
(* start maps to path_marker, every remaining cell to non_path_marker; no  *)
(* distance is left in the table.                                          *)
(***************************************************************************)
\* The cells on the way from goal back to start in a tree.
OnTheWay(L, start, goal) ==
    {c \in Cells : Hops(L, start, c) + Hops(L, c, goal) = Hops(L, start, goal)}

C5_ShortestPathTable ==
    /\ [](Constructed("ShortestPathMarkup") /\ SpanningTree(links) =>
            /\ Len(marks) = size /\ Keys(marks) = Cells
            /\ \A c \in Cells :
                 lookup(marks, c) =
                    IF c \in {start_cell, goal_cell} THEN Mark(end_marker)
                    ELSE IF c \in OnTheWay(links, start_cell, goal_cell)
                         THEN Mark(path_marker)
                         ELSE Mark(non_path_marker))
    /\ [](mk = "ShortestPathMarkup" /\ mpc = "walk" /\ SpanningTree(links) =>
            ENABLED (shortest_path_walk \/ shortest_path_finish))
    /\ [][(mk = "ShortestPathMarkup" /\ mpc = "walk" /\ SpanningTree(links)) =>
            \/ mpc' = "done"
            \/ /\ mpc' = "walk"
               /\ lookup(marks, sp_current').dist < lookup(marks, sp_current).dist]_vars

\* A spanning tree of the 2 x 3 grid with a cell of three links; the path
\* has an inner cell and leaves a cell out.
C5_Witness ==
    /\ Constructed("ShortestPathMarkup") /\ SpanningTree(links)
    /\ num_rows = 2 /\ num_columns = 3
    /\ \E c \in Cells : Len(links[c]) = 3
    /\ CellsWith(marks, Mark(path_marker)) # {}
    /\ CellsWith(marks, Mark(non_path_marker)) # {}

(***************************************************************************)
(* C6, as stated: on a spanning-tree grid, after ShortestPathMarkup(grid,  *)
(* start, goal) the cells whose value is path_marker form a simple chain   *)
(* from start to goal of DijkstraMarkup(grid, start)[goal] + 1 cells.      *)
(* (Violated: start and goal hold end_marker, not path_marker.)            *)
(***************************************************************************)
\* The cells of S form a simple chain of links from start to goal: one cell
\* at each distance 0 .. d from start, each linked to the one before it.
Chain(S, L, start, goal, d) ==
    /\ start \in S /\ goal \in S
    /\ Cardinality(S) = d + 1
    /\ \A c \in S : Hops(L, start, c) <= d
    /\ \A c \in S : \A e \in S : Hops(L, start, c) = Hops(L, start, e) => c = e
    /\ Hops(L, start, goal) = d
    /\ \A c \in S \ {start} :
          \E e \in S : Hops(L, start, e) + 1 = Hops(L, start, c) /\ is_linked(L, c, e)

C6_Original ==
    Constructed("ShortestPathMarkup") /\ SpanningTree(links) =>
        Chain(CellsWith(marks, Mark(path_marker)), links, start_cell, goal_cell,
              lookup(dijkstra(links, start_cell), goal_cell).dist)

(***************************************************************************)
(* C6, amended: on a spanning-tree grid, after ShortestPathMarkup(grid,    *)
(* start, goal) the cells whose value is path_marker or end_marker form a  *)
(* simple chain of links from start to goal of DijkstraMarkup(grid,        *)
(* start)[goal] + 1 cells; the two ends hold end_marker, the cells between *)
(* them path_marker.                                                       *)
(***************************************************************************)
C6_Amended ==
    Constructed("ShortestPathMarkup") /\ SpanningTree(links) =>
        /\ Chain(CellsWith(marks, Mark(path_marker)) \cup CellsWith(marks, Mark(end_marker)),
                 links, start_cell, goal_cell,
                 lookup(dijkstra(links, start_cell), goal_cell).dist)
        /\ CellsWith(marks, Mark(end_marker)) = {start_cell, goal_cell}

\* A path of four cells in a spanning tree of the 2 x 3 grid.
C6_Witness ==
    /\ Constructed("ShortestPathMarkup") /\ SpanningTree(links)
    /\ num_rows = 2 /\ num_columns = 3
    /\ Cardinality(CellsWith(marks, Mark(path_marker))) = 2
    /\ Cardinality(CellsWith(marks, Mark(end_marker))) = 2

(***************************************************************************)
(* C7: on a grid whose links are a spanning tree, whatever cell            *)
(* LongestPathMarkup picks first, the path it marks joins two cells whose  *)
(* link distance is the tree's diameter, the greatest link distance        *)
(* between any two cells.                                                  *)
(***************************************************************************)
C7_LongestPathIsDiameter ==
    Constructed("LongestPathMarkup") /\ SpanningTree(links) =>
        /\ Hops(links, start_cell, goal_cell) = Diameter(links)
        /\ CellsWith(marks, Mark(end_marker)) = {start_cell, goal_cell}
        /\ CellsWith(marks, Mark(path_marker)) \cup {start_cell, goal_cell}
              = OnTheWay(links, start_cell, goal_cell)

\* A spanning tree of the 2 x 3 grid with a cell of three links, where the
\* longest path leaves cells out.
C7_Witness ==
    /\ Constructed("LongestPathMarkup") /\ SpanningTree(links)
    /\ num_rows = 2 /\ num_columns = 3
    /\ \E c \in Cells : Len(links[c]) = 3
    /\ CellsWith(marks, Mark(non_path_marker)) # {}

(***************************************************************************)
(* C8, as stated: if goal is not reachable from start via links, the       *)
(* construction of ShortestPathMarkup does not terminate; it ends neither  *)
(* with an error nor with a result. (Violated: min() raises.)              *)
(***************************************************************************)
C8_Original ==
    (mk = "ShortestPathMarkup" /\ goal_cell \notin Reach(links, start_cell)) =>
        mpc = "walk"

(***************************************************************************)
(* C8, amended: if goal is not reachable from start via links and the link *)
(* relation is symmetric, the construction of ShortestPathMarkup ends with *)
(* an error in the first iteration of the backward walk: ValueError (min   *)
(* of an empty list) when goal has no links, KeyError (a linked cell has   *)
(* no mark) otherwise. It neither loops nor yields a result.               *)
(***************************************************************************)
C8_NoWay ==
    /\ mk = "ShortestPathMarkup"
    /\ Symmetric(links)
    /\ goal_cell \notin Reach(links, start_cell)

C8_Amended ==
    /\ [](C8_NoWay =>
            /\ mpc \in {"walk", "error"}
            /\ sp_current = goal_cell
            /\ (mpc = "walk" => ENABLED shortest_path_walk))
    /\ [][(C8_NoWay /\ mpc = "walk") =>
            /\ mpc' = "error"
            /\ raised' = IF links[goal_cell] = <<>> THEN "ValueError" ELSE "KeyError"]_vars

\* The walk has raised KeyError: goal has a link, and start cannot reach it.
C8_Witness ==
    /\ C8_NoWay /\ mpc = "error" /\ raised = "KeyError"
    /\ links[start_cell] # <<>>

(***************************************************************************)
(* aldous_broder and wilson under fair random choices: the program keeps   *)
(* running, and a neighbour that random.choice could return again and      *)
(* again is returned at some time. (A start cell is chosen at most size()  *)
(* times in a run, as every walk visits a cell: the fairness of that       *)
(* choice asks nothing.) A behaviour runs one of the two algorithms, so    *)
(* that the fairness of the choice of a cell is stated for both at once.   *)
(***************************************************************************)
\* The cells of the grids explored.
AllCells ==
    {c \in (0..(MaxRows - 1)) \X (0..(MaxCols - 1)) :
        (c[1] + 1) * (c[2] + 1) <= MaxCells}
\* random.choice(... .neighbors()) returns the cell n.
ChooseNeighbor(n) == aldous_broder_step(n) \/ wilson_next(n)

NextFair ==
    \/ aldous_broder_call
    \/ (\E n \in Cells : aldous_broder_step(n))
    \/ aldous_broder_return
    \/ wilson_call
    \/ (\E s \in Cells : wilson_start(s))
    \/ (\E n \in Cells : wilson_next(n))
    \/ wilson_carve
    \/ wilson_return

FairChoices ==
    /\ WF_vars(NextFair)
    /\ \A n \in AllCells : SF_vars(ChooseNeighbor(n))

SpecFair == Init /\ [][NextFair]_vars /\ FairChoices

\* The algorithm has returned with every cell visited.
AllVisited ==
    /\ pc = "done"
    /\ algo = "aldous_broder" => Range(visited) = Cells
    /\ algo = "wilson" => unvisited = <<>>

\* aldous_broder has a run of unbounded length on the grid: from some start
\* cell s, after the step to a neighbour n the loop still runs, and the steps
\* back to s and again to n change neither visited nor the links, so that the
\* walk can go on between s and n for ever.
AldousBroderCanCycle ==
    \E s \in Cells : \E n \in Range(neighbors(s)) :
        LET v1 == aldous_broder_visit(<<s>>, n)
            L1 == aldous_broder_link(NoLinks, <<s>>, s, n)
        IN  /\ aldous_broder_running(<<s>>)
            /\ aldous_broder_running(v1)
            /\ s \in Range(neighbors(n))
            /\ aldous_broder_visit(v1, s) = v1
            /\ aldous_broder_link(L1, v1, n, s) = L1
            /\ aldous_broder_visit(v1, n) = v1
            /\ aldous_broder_link(L1, v1, s, n) = L1
\* wilson has a run of unbounded length on the grid: for some first cell and
\* some start, the walk can step to an unvisited neighbour n and back to start,
\* which erases the loop and leaves the path as it was, for ever.
WilsonCanCycle ==
    \E first \in Cells :
        LET unv == Remove(each_cell, first)
        IN  \E start \in Range(unv) : \E n \in Range(neighbors(start)) :
                LET p1 == loop_erase(<<start>>, n)
                IN  /\ walking(<<start>>, unv)
                    /\ p1 # <<start>>
                    /\ walking(p1, unv)
                    /\ start \in Range(neighbors(Last(p1)))
                    /\ loop_erase(p1, start) = <<start>>

\* What a run of unbounded length needs: aldous_broder's loop still runs
\* after the first step of some run.
AldousBroderSecondStep ==
    \E s \in Cells : \E n \in Range(neighbors(s)) :
        aldous_broder_running(<<s>>) /\ aldous_broder_running(aldous_broder_visit(<<s>>, n))
\* What a run of unbounded length needs: a walk of wilson (a run has at most
\* size() walks) goes on after its first step, that is a start cell has an
\* unvisited neighbour; the cells unvisited in a later walk are unvisited in
\* the first.
WilsonSecondStep ==
    \E first \in Cells :
        LET unv == Remove(each_cell, first)
        IN  \E start \in Range(unv) : \E n \in Range(neighbors(start)) :
                walking(<<start>>, unv) /\ walking(loop_erase(<<start>>, n), unv)

(***************************************************************************)
(* C10, as stated: under fair random choices aldous_broder and wilson      *)
(* eventually return with every cell visited, and without fairness both    *)
(* have runs of unbounded length on any grid with at least two cells,      *)
(* hence runs that go on after their first step. (Violated: on a grid of   *)
(* two cells the first choice ends either one.)                            *)
(***************************************************************************)
C10_Original ==
    /\ <>AllVisited
    /\ [](size >= 2 => AldousBroderSecondStep /\ WilsonSecondStep)

(***************************************************************************)
(* C10, amended: under fair random choices aldous_broder and wilson        *)
(* eventually return with every cell visited, and without fairness both    *)
(* have runs of unbounded length on any grid with at least three cells; on *)
(* a grid of two cells every run ends with its first neighbour choice.     *)
(***************************************************************************)
C10_Amended ==
    /\ <>AllVisited
    /\ [](size >= 3 => AldousBroderCanCycle /\ WilsonCanCycle)
    /\ [][(size = 2 /\ \E n \in Cells : aldous_broder_step(n)) =>
            ~aldous_broder_running(visited')]_vars
    /\ [][(size = 2 /\ \E n \in Cells : wilson_next(n)) =>
            ~walking(path', unvisited')]_vars

\* wilson has returned on a 2 x 3 grid; the last path carved has four cells.
C10_Witness ==
    /\ AllVisited /\ algo = "wilson"
    /\ num_rows = 2 /\ num_columns = 3
    /\ Len(path) = 4

(***************************************************************************)
(* hybrid: the two phases                                                  *)
(***************************************************************************)
\* hybrid stands in its second loop (lines 522-539).
HybridSecondPhase == algo = "hybrid" /\ pc \in {"outer", "erased_walk"}
\* A step moved hybrid's current: an iteration of the first loop.
HybridPlainStep == algo = "hybrid" /\ current' # current
\* Cells left the unvisited list of hybrid in this step.
HybridVisits == algo = "hybrid" /\ unvisited' # unvisited

(***************************************************************************)
(* C11: hybrid makes plain random-walk steps exactly while                 *)
(* len(unvisited) > size() * threshold, switches to loop-erased walks the  *)
(* first time this fails and never returns; after the switch cells leave   *)
(* unvisited only when a loop-erased walk is carved. With threshold = 0    *)
(* there is no loop-erased walk, with threshold = 1 no plain step.         *)
(***************************************************************************)
C11_HybridPhases ==
    /\ [](algo = "hybrid" /\ pc = "walk" =>
            IF Len(unvisited) * ThresholdDen > size * threshold
            THEN (\E n \in Cells : ENABLED hybrid_step(n)) /\ ~ENABLED hybrid_switch
            ELSE ENABLED hybrid_switch /\ \A n \in Cells : ~ENABLED hybrid_step(n))
    /\ [](HybridSecondPhase => Len(unvisited) * ThresholdDen <= size * threshold)
    /\ [](algo = "hybrid" /\ threshold = 0 => pc # "erased_walk")
    /\ [][HybridPlainStep =>
            pc = "walk" /\ Len(unvisited) * ThresholdDen > size * threshold]_vars
    /\ [][HybridSecondPhase => pc' # "walk" /\ current' = current]_vars
    /\ [][HybridSecondPhase /\ HybridVisits =>
            /\ pc = "erased_walk" /\ pc' = "outer"
            /\ ~walking(path, unvisited)
            /\ \A c \in Cells :
                 (c \in Range(unvisited) /\ c \notin Range(unvisited')) <=>
                    c \in Range(Front(path))]_vars
    /\ [][algo = "hybrid" /\ threshold = ThresholdDen => ~HybridPlainStep]_vars

\* hybrid with threshold = 1/2 on the 2 x 3 grid, after plain steps have
\* linked cells, in a loop-erased walk of three cells.
C11_Witness ==
    /\ algo = "hybrid" /\ pc = "erased_walk"
    /\ 2 * threshold = ThresholdDen
    /\ num_rows = 2 /\ num_columns = 3
    /\ Len(unvisited) = 3
    /\ Len(path) = 3

(***************************************************************************)
(* C12: after binary_tree the top row is one chain running east: every     *)
(* cell (0, c) outside the last column is linked to (0, c + 1), and no     *)
(* cell of row 0 has a link towards the north (its links are among its     *)
(* east, west and south neighbours). During the run the same holds of the  *)
(* cells of row 0 already visited.                                         *)
(***************************************************************************)
C12_TopRowChain ==
    algo = "binary_tree" =>
        \A c \in 0..(num_columns - 1) :
            /\ (c < num_columns - 1 /\ (pc = "done" \/ c < pos)) =>
                   /\ is_linked(links, <<0, c>>, <<0, c + 1>>)
                   /\ is_linked(links, <<0, c + 1>>, <<0, c>>)
            /\ Range(links[<<0, c>>]) \subseteq
                   ({east(<<0, c>>), west(<<0, c>>), south(<<0, c>>)} \ {None})

\* binary_tree has returned on the 2 x 3 grid, and a cell of row 1 is linked
\* to the top row.
C12_Witness ==
    /\ algo = "binary_tree" /\ pc = "done"
    /\ num_rows = 2 /\ num_columns = 3
    /\ is_linked(links, <<0, 1>>, <<1, 1>>)

\* The links a grid can have: the pairs of geographic neighbours.
GridEdges == UNION {{{a, b} : b \in Range(neighbors(a))} : a \in Cells}
\* The spanning trees of the 2 x 2 grid, whose cells and edges form a cycle of
\* four: the sets of three of its four edges.
Trees2x2 == {T \in SUBSET GridEdges : Cardinality(T) = 3}

(***************************************************************************)
(* C13: on the 2 x 2 grid the link structures wilson can return with are   *)
(* exactly the 4 spanning trees of the cycle of four cells: whatever       *)
(* wilson returns with is one of them, and each of them is what wilson     *)
(* returns with for some values of its random draws.                       *)
(***************************************************************************)
C13_WilsonOutcomes ==
    (algo = "wilson" /\ pc = "done" /\ num_rows = 2 /\ num_columns = 2) =>
        /\ Cardinality(Trees2x2) = 4
        /\ \A T \in Trees2x2 : SpanningTree([c \in Cells |->
               SelectSeq(each_cell, LAMBDA d : {c, d} \in T)])
        /\ Symmetric(links)
        /\ UndirectedLinks(links) \in Trees2x2
        /\ \A T \in Trees2x2 : \E tape \in Tapes :
               LET r == wilson_run(tape)
               IN  r.ended /\ Symmetric(r.links) /\ UndirectedLinks(r.links) = T
        /\ \A tape \in Tapes :
               LET r == wilson_run(tape)
               IN  r.ended => Symmetric(r.links) /\ UndirectedLinks(r.links) \in Trees2x2

\* wilson has returned on the 2 x 2 grid with the tree that lacks the link
\* between (1, 0) and (1, 1), after a walk through three unvisited cells.
C13_Witness ==
    /\ algo = "wilson" /\ pc = "done"
    /\ num_rows = 2 /\ num_columns = 2
    /\ ~is_linked(links, <<1, 0>>, <<1, 1>>)
    /\ Len(path) = 4

(***************************************************************************)
(* C14: sidewinder called with odds = 1.0, or any odds outside             *)
(* 0 <= odds < 1, fails at the call before any cell is visited: it ends    *)
(* with AssertionError, every cell's links are what they were, and nothing *)
(* happens after.                                                          *)
(***************************************************************************)
C14_SidewinderOddsAsserted ==
    /\ [][(algo = "none" /\ algo' = "sidewinder" /\ (odds' < 0 \/ odds' >= OddsDen)) =>
            /\ raised' = "AssertionError"
            /\ pc' = "failed"
            /\ links' = links
            /\ pos' = 0 /\ run' = <<>>]_vars
    /\ [][~(algo = "sidewinder" /\ (odds < 0 \/ odds >= OddsDen))]_vars

\* sidewinder(grid, odds=1.0) has failed on a grid that had links.
C14_Witness ==
    /\ algo = "sidewinder" /\ pc = "failed" /\ raised = "AssertionError"
    /\ odds = OddsDen
    /\ links # NoLinks

(***************************************************************************)
(* C15: for every Markup and every in-bounds (row, col), get_item_at(row,  *)
(* col) returns what markup[grid.cell_at(row, col)] returns, the markup's  *)
(* default for a cell never set, after any sequence of set, set_item_at    *)
(* and reset. (Violated: for a cell without entry get_item_at returns      *)
(* None.)                                                                  *)
(***************************************************************************)
C15_GetItemAt ==
    [][\A row \in RowValues : \A column \in ColumnValues :
          (at_asserted(row, column) /\ get_item_at_call(row, column)) =>
              /\ raised' = "none"
              /\ ret' = getitem(marks, cell_at(row, column), mk_default)]_vars

(***************************************************************************)
(* C16: Cell.unlink(other), with either value of bidirectional, called     *)
(* when other is not in this cell's links fails with KeyError, and no      *)
(* cell's links are modified by the failed call.                           *)
(***************************************************************************)
C16_UnlinkMissing ==
    [][\A a \in Cells : \A b \in Range(neighbors(a)) : \A bidirectional \in BOOLEAN :
          (~is_linked(links, a, b) /\ UnlinkCall(a, b, bidirectional)) =>
              /\ raised' = "KeyError"
              /\ links' = links]_vars

\* An unlink call has failed on a pair linked in the other direction only.
C16_Witness ==
    /\ raised = "KeyError"
    /\ pc = "idle" /\ mk = "none"
    /\ \E a \in Cells : \E b \in Range(neighbors(a)) :
          /\ ~is_linked(links, a, b) /\ is_linked(links, b, a)
          /\ \A c \in Cells \ {b} : links[c] = <<>>

\* The source markup's greatest value is 0.
C17_MaxIsZero ==
    /\ Len(marks) > 0
    /\ \A i \in 1..Len(marks) : is_number(marks[i].v) /\ marks[i].v.dist <= 0
    /\ \E i \in 1..Len(marks) : marks[i].v.dist = 0

(***************************************************************************)
(* C17: ColorizedMarkup.intensity_colorize fails when the source markup's  *)
(* greatest value is 0 (a DijkstraMarkup whose root is the only marked     *)
(* cell, say) and when the source markup has no marked cell, and in both   *)
(* cases no entry of the ColorizedMarkup's own table is written. The       *)
(* errors are ValueError for the empty table and, at the first cell,       *)
(* ZeroDivisionError (TypeError if that cell has no entry and the source's *)
(* default is no number) for the greatest value 0.                         *)
(***************************************************************************)
C17_IntensityColorizeFails ==
    [][intensity_colorize_call =>
          /\ Len(marks) = 0 => raised' = "ValueError" /\ colors' = colors
          /\ C17_MaxIsZero =>
                /\ colors' = colors
                /\ raised' = IF is_number(getitem(marks, each_cell[1], mk_default))
                             THEN "ZeroDivisionError" ELSE "TypeError"]_vars

\* intensity_colorize has failed with a division by zero on a ColorizedMarkup
\* that an earlier call had filled.
C17_Witness ==
    /\ raised = "ZeroDivisionError"
    /\ C17_MaxIsZero
    /\ channel # "none"
    /\ Len(colors) = size

\* wilson, or hybrid in its second loop, is in a walk / between two walks.
InWalk == algo \in {"wilson", "hybrid"} /\ pc = "erased_walk"
BetweenWalks == algo \in {"wilson", "hybrid"} /\ pc \in {"outer", "done"}

(***************************************************************************)
(* C18: in wilson and in the second phase of hybrid, at every step of a    *)
(* walk the path has no repeated cell, every path cell except possibly the *)
(* last is unvisited, and consecutive path cells are geographic            *)
(* neighbours; when the walk ends its last cell is visited, exactly        *)
(* len(path) - 1 links are added, one per consecutive pair, and exactly    *)
(* the path cells other than the last leave unvisited; between walks the   *)
(* number of undirected links is the number of visited cells minus 1.      *)
(***************************************************************************)
C18_LoopErasedWalk ==
    /\ [](InWalk =>
            /\ Len(path) >= 1
            /\ \A i \in 1..Len(path) : \A j \in 1..Len(path) :
                  path[i] = path[j] => i = j
            /\ \A i \in 1..(Len(path) - 1) :
                  /\ path[i] \in Range(unvisited)
                  /\ path[i + 1] \in Range(neighbors(path[i])))
    /\ [](BetweenWalks =>
            /\ Symmetric(links)
            /\ Cardinality(UndirectedLinks(links)) = (size - Len(unvisited)) - 1)
    /\ [][(InWalk /\ pc' # "erased_walk") =>
            /\ Last(path) \notin Range(unvisited)
            /\ UndirectedLinks(links') =
                  UndirectedLinks(links) \cup
                      {{path[i], path[i + 1]} : i \in 1..(Len(path) - 1)}
            /\ Cardinality(UndirectedLinks(links')) =
                  Cardinality(UndirectedLinks(links)) + Len(path) - 1
            /\ Range(unvisited') = Range(unvisited) \ Range(Front(path))
            /\ Len(unvisited') = Len(unvisited) - (Len(path) - 1)]_vars
    /\ [][(InWalk /\ pc' = "erased_walk") => UNCHANGED <<links, unvisited>>]_vars

\* hybrid, in its second phase on the 2 x 3 grid: the walk from the last
\* unvisited cell has reached a visited cell, four links having been made.
C18_Witness ==
    /\ algo = "hybrid" /\ pc = "erased_walk"
    /\ num_rows = 2 /\ num_columns = 3
    /\ Len(unvisited) = 1 /\ Len(path) = 2
    /\ Cardinality(UndirectedLinks(links)) = 4
    /\ \E c \in Cells : Len(links[c]) = 3

\* The cells (r, a) .. (r, b) are a run of row r: each is linked east to the
\* next, and the links east stop on either side.
IsRun(L, r, a, b) ==
    /\ a = 0 \/ ~is_linked(L, <<r, a - 1>>, <<r, a>>)
    /\ \A c \in a..(b - 1) : is_linked(L, <<r, c>>, <<r, c + 1>>)
    /\ b = num_columns - 1 \/ ~is_linked(L, <<r, b>>, <<r, b + 1>>)
\* The cells of the run that are linked to their north neighbour.
LinkedNorth(L, r, a, b) == {c \in a..b : is_linked(L, <<r, c>>, <<r - 1, c>>)}

(***************************************************************************)
(* C19: after sidewinder with valid odds, every row below row 0 is cut     *)
(* into consecutive runs: within a run each cell is linked east to the     *)
(* next, the last cell of a run is not linked east, and exactly one cell   *)
(* of each run is linked to its north neighbour; row 0 is one run linked   *)
(* east from the first to the last column. The last cell of a row below    *)
(* row 0 always closes its run: the step that visits it links a cell of    *)
(* the run north and empties the run.                                      *)
(***************************************************************************)
C19_SidewinderRuns ==
    /\ [](algo = "sidewinder" /\ pc = "done" =>
            /\ Symmetric(links)
            /\ IsRun(links, 0, 0, num_columns - 1)
            /\ \A r \in 1..(num_rows - 1) :
                 \A a \in 0..(num_columns - 1) : \A b \in a..(num_columns - 1) :
                    IsRun(links, r, a, b) =>
                        Cardinality(LinkedNorth(links, r, a, b)) = 1)
    /\ [][(algo = "sidewinder" /\ pc = "each_cell" /\ pos' = pos + 1
              /\ each_cell_at(pos)[1] > 0
              /\ each_cell_at(pos)[2] = num_columns - 1) =>
            /\ run' = <<>>
            \* the run of this row: line 421 empties run when a row begins
            /\ \E c \in {d \in Range(run) : d[1] = each_cell_at(pos)[1]}
                                \cup {each_cell_at(pos)} :
                  /\ ~is_linked(links, c, north(c))
                  /\ links' = link(links, c, north(c), TRUE)]_vars

\* sidewinder has returned on the 2 x 3 grid with row 1 cut into two runs, the
\* first of two cells and linked north from its second cell.
C19_Witness ==
    /\ algo = "sidewinder" /\ pc = "done"
    /\ num_rows = 2 /\ num_columns = 3
    /\ IsRun(links, 1, 0, 1) /\ IsRun(links, 1, 2, 2)
    /\ LinkedNorth(links, 1, 0, 1) = {1}

(***************************************************************************)
(* C20: at every step of aldous_broder and of recursive_backtracker the    *)
(* links carved so far form a tree spanning exactly the visited cells:     *)
(* the cells reachable from the start cell via links are the visited       *)
(* cells, no unvisited cell has a link, the visited list has no            *)
(* duplicates, and the number of undirected links is the number of         *)
(* visited cells minus 1.                                                  *)
(***************************************************************************)
C20_TreeOfVisited ==
    algo \in {"aldous_broder", "recursive_backtracker"} =>
        /\ Len(visited) >= 1
        /\ \A i \in 1..Len(visited) : \A j \in 1..Len(visited) :
              visited[i] = visited[j] => i = j
        /\ Symmetric(links)
        /\ Reach(links, visited[1]) = Range(visited)
        /\ \A c \in Cells \ Range(visited) : links[c] = <<>>
        /\ Cardinality(UndirectedLinks(links)) = Len(visited) - 1

\* recursive_backtracker on the 2 x 3 grid has visited four cells and has
\* backtracked once.
C20_Witness ==
    /\ algo = "recursive_backtracker" /\ pc = "stack"
    /\ num_rows = 2 /\ num_columns = 3
    /\ Len(visited) = 4 /\ pops = 1
    /\ Cardinality(UndirectedLinks(links)) = 3

(***************************************************************************)
(* C21: colorize_dijkstra(start_row, start_column) called with in-bounds   *)
(* coordinates that the caller supplies, row 0 and column 0 included,      *)
(* computes its distance field from the cell at (start_row, start_column); *)
(* the centre is used only for a coordinate that was omitted. (Violated:   *)
(* a coordinate 0 is replaced by the centre's, as an omitted one is.)      *)
(***************************************************************************)
C21_ColorizeDijkstraStart ==
    [][\A row \in 0..(num_rows - 1) : \A column \in 0..(num_columns - 1) :
          colorize_dijkstra_call(Given(row), Given(column)) =>
              /\ start_cell' = <<row, column>>
              /\ marks' = dijkstra(links, <<row, column>>)]_vars

(***************************************************************************)
(* C22: in any state reached by Cell.link and Cell.unlink calls with       *)
(* either value of bidirectional, a call of unlink that raises an error    *)
(* leaves every cell's links as they were before the call. (Violated:      *)
(* unlink with bidirectional=True on a pair linked in one direction only   *)
(* removes this cell's entry before the recursive call raises KeyError.)   *)
(***************************************************************************)
C22_FailedUnlinkChangesNothing ==
    [][\A a \in Cells : \A b \in Range(neighbors(a)) : \A bidirectional \in BOOLEAN :
          (UnlinkCall(a, b, bidirectional) /\ raised' # "none") =>
              links' = links]_vars

=============================================================================
